---- MODULE Spec2Model ----
(***************************************************************************)
(* The AI Tutor pipeline: Supervisor (Classifier) -> Researcher (Content)  *)
(* -> Media Engine, wired as a LangGraph StateGraph and served by the      *)
(* Express chat route.  One graph invocation is modelled as a state        *)
(* machine whose steps are the points where a node starts, or where an     *)
(* awaited LLM call returns or raises.                                     *)
(***************************************************************************)
EXTENDS Integers, Sequences, FiniteSets, TLC

VARIABLES
    pc,          \* position of the invocation in the graph
    state,       \* the channel values of the graph (the PipelineState)
    supOut,      \* the record runSupervisor returned (NoOut before it ran)
    executed,    \* the nodes that have been called, in order
    llmRequests, \* the LLM requests issued so far, in order, by call site
    llmResp,     \* call site -> the outcome the LLM call had (NoResp before)
    locals,      \* runMediaEngine's imageUrl, audioText, mediaFailed
    sub,         \* how each media sub-task ended: "none", "ok" or "failed"
    vercel,      \* process.env.VERCEL is set
    files,       \* the files written through fs.writeFileSync
    http,        \* the response the route has sent (status 0: none yet)
    fn,          \* one application of a function to an input, and its result
    api,         \* one request to the serverless handler (api/chat.js)
    conc,        \* invocations of the graph in flight in one process
    client       \* the browser client: App's state and its requests in flight

vars == <<pc, state, supOut, executed, llmRequests, llmResp, locals, sub, vercel, files, http,
          fn, api, conc, client>>

\* What is outside one request to the Express route.
others == <<fn, api, conc, client>>
Idle == [pc |-> "idle"]

(***************************************************************************)
(* JavaScript values.  null and undefined are distinct values; a string    *)
(* is tagged; rejected, mediaFailed are booleans and duration an integer.  *)
(***************************************************************************)
Null == [k |-> "null"]
Undef == [k |-> "undefined"]
Str(s) == [k |-> "str", v |-> s]
Num(n) == [k |-> "num", n |-> n]
NaN == [k |-> "nan"]
Arr(a) == [k |-> "array", a |-> a]

IsStr(v) == v.k = "str"
IsNullish(v) == v.k \in {"null", "undefined"}

\* JavaScript truthiness of a value: null, undefined, "", 0 and NaN are falsy.
Truthy(v) ==
    CASE v.k = "str" -> IF "v" \in DOMAIN v THEN v.v # "" \/ "ws" \in DOMAIN v
                        ELSE IF "c" \in DOMAIN v THEN v.c # <<>>
                        ELSE TRUE
      [] v.k = "num" -> IF "n" \in DOMAIN v THEN v.n # 0 ELSE TRUE
      [] v.k \in {"array", "object", "function"} -> TRUE
      [] OTHER -> FALSE

\* What a template literal `${v}` or a string concatenation makes of a value.
ToStr(v) ==
    CASE v.k = "str" -> v.v
      [] v.k = "null" -> "null"
      [] v.k = "undefined" -> "undefined"
      [] v.k = "nan" -> "NaN"
      [] OTHER -> "[value]"

\* A string with surrounding white space: " s ".  Str(s) has none.
Pad(s) == [k |-> "str", v |-> s, ws |-> TRUE]
\* String.prototype.trim: the surrounding white space goes.
Trim(v) == Str(v.v)

NoOut == [k |-> "none"]
NoResp == [kind |-> "none"]
Raise(msg) == [kind |-> "raise", msg |-> msg]
Returned(content) == [kind |-> "text", content |-> content]

(***************************************************************************)
(* The text of a completion that is meant to carry JSON: optional white    *)
(* space around it, optional ``` code fences, and the JSON text itself,    *)
(* given by the value it decodes to (Invalid when it is not JSON).         *)
(***************************************************************************)
Invalid == [k |-> "invalid"]
JsonText(ws, fenced, json) == [ws |-> ws, fenced |-> fenced, json |-> json]
TrimJson(t) == [t EXCEPT !.ws = FALSE]
\* text.replace(/^```(?:json)?\s*/i, "").replace(/\s*```$/i, "")
StripFences(t) == [t EXCEPT !.fenced = FALSE]
\* JSON.parse: throws on fences and on text that is not JSON.
JSONParse(t) ==
    IF t.fenced \/ t.json = Invalid
    THEN [ok |-> FALSE]
    ELSE [ok |-> TRUE, value |-> t.json]

\* The object the classifier is asked for; a missing field is undefined.
ClsObj(c, r, d) ==
    [k |-> "object", classification |-> c, reason |-> r, detectedTopic |-> d]

(***************************************************************************)
(* The Express chat route's reading of the request, and the initial state. *)
(***************************************************************************)
\* A duration given as a string is a sequence of characters.
Chars(c) == [k |-> "str", c |-> c]
Digits == {"0", "1", "2", "3", "4", "5", "6", "7", "8", "9"}
DigitVal(d) ==
    CASE d = "0" -> 0 [] d = "1" -> 1 [] d = "2" -> 2 [] d = "3" -> 3
      [] d = "4" -> 4 [] d = "5" -> 5 [] d = "6" -> 6 [] d = "7" -> 7
      [] d = "8" -> 8 [] d = "9" -> 9

\* The longest prefix of digits of c, read as a number, with how many it has.
RECURSIVE LeadingDigits(_, _, _)
LeadingDigits(c, i, acc) ==
    IF i <= Len(c) /\ c[i] \in Digits
    THEN LeadingDigits(c, i + 1, [n |-> acc.n * 10 + DigitVal(c[i]), len |-> acc.len + 1])
    ELSE acc

\* parseInt(v): a number's integer part; of a string, the leading white
\* space is skipped, then an optional sign and the leading digits are read;
\* NaN when there is no digit (and for undefined and null).
RECURSIVE SkipSpaces(_)
SkipSpaces(c) == IF Len(c) > 0 /\ c[1] = " " THEN SkipSpaces(Tail(c)) ELSE c

ParseInt(v) ==
    CASE v.k = "num" -> v
      [] v.k = "str" /\ "c" \in DOMAIN v ->
           LET c == v.c
               s == SkipSpaces(c)
               neg == Len(s) > 0 /\ s[1] = "-"
               t == IF Len(s) > 0 /\ s[1] \in {"-", "+"} THEN Tail(s) ELSE s
               d == LeadingDigits(t, 1, [n |-> 0, len |-> 0])
           IN IF d.len = 0 THEN NaN
              ELSE Num(IF neg THEN 0 - d.n ELSE d.n)
      [] OTHER -> NaN

\* a || b on a number a and a default b.
OrDefault(a, b) == IF Truthy(a) THEN a ELSE b

Min(a, b) == IF a < b THEN a ELSE b
Max(a, b) == IF a > b THEN a ELSE b

createInitialState(query, duration) ==
    [query |-> query,
     duration |-> Min(5, Max(2, OrDefault(duration, Num(3)).n)),
     topic |-> Null,
     rejected |-> FALSE,
     rejectionReason |-> Null,
     classification |-> Null,
     markdown |-> Null,
     imageUrl |-> Null,
     audioText |-> Null,
     mediaFailed |-> FALSE]

(***************************************************************************)
(* The graph's channels: every channel's reducer is (a, b) => b ?? a.      *)
(***************************************************************************)
Reduce(a, b) == IF IsNullish(b) THEN a ELSE b

\* The channels' default values.
ChannelDefaults ==
    [query |-> Str(""), duration |-> 3, topic |-> Null, rejected |-> FALSE,
     rejectionReason |-> Null, classification |-> Null, markdown |-> Null,
     imageUrl |-> Null, audioText |-> Null, mediaFailed |-> FALSE]

\* Mutant: a channel whose value the node did not change is reset to its
\* default.
MergeState_KeepsOnlyWritten(a, out) ==
    [f \in DOMAIN out |-> IF out[f] = a[f] THEN ChannelDefaults[f] ELSE out[f]]

\* The channel values after a node returned `out`.  rejected, mediaFailed
\* and duration are never null or undefined in a node's output.
MergeState(a, out) ==
    [query |-> Reduce(a.query, out.query),
     duration |-> out.duration,
     topic |-> Reduce(a.topic, out.topic),
     rejected |-> out.rejected,
     rejectionReason |-> Reduce(a.rejectionReason, out.rejectionReason),
     classification |-> Reduce(a.classification, out.classification),
     markdown |-> Reduce(a.markdown, out.markdown),
     imageUrl |-> Reduce(a.imageUrl, out.imageUrl),
     audioText |-> Reduce(a.audioText, out.audioText),
     mediaFailed |-> out.mediaFailed]

\* Mutants of routeAfterSupervisor: the branch ignored one way or the other.
routeAfterSupervisor_AlwaysResearcher(st) == "researcher"
routeAfterSupervisor_AlwaysEnd(st) == "end"

routeAfterSupervisor(st) == IF st.rejected THEN "end" ELSE "researcher"

(***************************************************************************)
(* Supervisor (Classifier).                                                *)
(***************************************************************************)
\* The two rejection messages' fixed parts (their emoji written in ASCII).
HarmfulMarker == "(!) This query was flagged as harmful: "
IrrelevantMarker == "(x) This query is not related to placement preparation: "

\* result.classification and result.reason: undefined on a value that is
\* not an object with that field (a number, a string, a boolean).
PropClassification(v) == IF v.k = "object" THEN v.classification ELSE Undef
PropReason(v) == IF v.k = "object" THEN v.reason ELSE Undef

\* The catch branch: implicit acceptance.
SupervisorFailOpen(st) ==
    [st EXCEPT !.rejected = FALSE,
               !.topic = st.query,
               !.classification = Str("placement_topic")]

\* Mutant: the rejection also populates the topic.
SupervisorReject_SetsTopic(st, result) ==
    [st EXCEPT !.rejected = TRUE,
               !.topic = st.query,
               !.rejectionReason =
                   IF PropClassification(result) = Str("harmful")
                   THEN Str(HarmfulMarker \o ToStr(PropReason(result)))
                   ELSE Str(IrrelevantMarker \o ToStr(PropReason(result))),
               !.classification = PropClassification(result)]

\* Mutant: one message for both kinds of rejection.
SupervisorReject_OneMarker(st, result) ==
    [st EXCEPT !.rejected = TRUE,
               !.rejectionReason = Str(IrrelevantMarker \o ToStr(PropReason(result))),
               !.classification = PropClassification(result)]

SupervisorReject(st, result) ==
    [st EXCEPT !.rejected = TRUE,
               !.rejectionReason =
                   IF PropClassification(result) = Str("harmful")
                   THEN Str(HarmfulMarker \o ToStr(PropReason(result)))
                   ELSE Str(IrrelevantMarker \o ToStr(PropReason(result))),
               !.classification = PropClassification(result)]

SupervisorAccept(st, result) ==
    [st EXCEPT !.rejected = FALSE,
               !.topic = st.query,
               !.classification = PropClassification(result)]

\* runSupervisor, from the point where model.invoke returned or raised.
runSupervisor(st, resp) ==
    IF resp.kind = "raise" THEN SupervisorFailOpen(st)
    ELSE LET parsed == JSONParse(StripFences(TrimJson(resp.content)))
         IN IF ~parsed.ok THEN SupervisorFailOpen(st)
            \* reading a property of null raises a TypeError
            ELSE IF IsNullish(parsed.value) THEN SupervisorFailOpen(st)
            ELSE IF PropClassification(parsed.value) # Str("placement_topic")
                 THEN SupervisorReject(st, parsed.value)
                 ELSE SupervisorAccept(st, parsed.value)

(***************************************************************************)
(* Researcher (Content).                                                   *)
(***************************************************************************)
PlaceholderHead == "## Content Generation Error\n\nWe encountered an issue generating content for \""
PlaceholderMid == "\". Please try again.\n\n*Error: "
PlaceholderTail == "*"

\* The catch branch's fragment: it names state.topic and error.message.
Placeholder(topic, msg) ==
    Str(PlaceholderHead \o ToStr(topic) \o PlaceholderMid \o msg \o PlaceholderTail)

\* Mutant: an empty completion is stored as null (as the narration is).
runResearcher_EmptyToNull(st, resp) ==
    IF resp.kind = "raise"
    THEN [st EXCEPT !.markdown = Placeholder(st.topic, resp.msg)]
    ELSE [st EXCEPT !.markdown =
              IF Truthy(Trim(resp.content)) THEN Trim(resp.content) ELSE Null]

\* Mutant: the catch branch returns the state as it was.
runResearcher_NoPlaceholder(st, resp) ==
    IF resp.kind = "raise"
    THEN st
    ELSE [st EXCEPT !.markdown = Trim(resp.content)]

\* runResearcher, from the point where model.invoke returned or raised.
runResearcher(st, resp) ==
    IF resp.kind = "raise"
    THEN [st EXCEPT !.markdown = Placeholder(st.topic, resp.msg)]
    ELSE [st EXCEPT !.markdown = Trim(resp.content)]

(***************************************************************************)
(* Media Engine, sub-task (a): visual metadata and rendering.              *)
(***************************************************************************)
\* The metadata object the LLM is asked for; a missing field is undefined.
Meta(title, subtitle, keyConcepts, category, codeSnippet, interviewTip) ==
    [k |-> "object", title |-> title, subtitle |-> subtitle,
     keyConcepts |-> keyConcepts, category |-> category,
     codeSnippet |-> codeSnippet, interviewTip |-> interviewTip]

\* The completion text of the metadata call, as a sequence of segments:
\* prose without braces; a balanced {...} span that is valid JSON (given by
\* the object it decodes to); a balanced span that is not valid JSON; a
\* stray "{" (as in a truncated object); a stray "}"; or JSON text that
\* holds no brace at all (null, a number).
Prose == [s |-> "prose"]
ObjSeg(meta) == [s |-> "obj", value |-> meta]
BadObj == [s |-> "badobj"]
OpenBrace == [s |-> "open"]
CloseBrace == [s |-> "close"]
Scalar(value) == [s |-> "scalar", value |-> value]
ImgText(segs) == [k |-> "str", segs |-> segs]

HasOpen(seg) == seg.s \in {"obj", "badobj", "open"}
HasClose(seg) == seg.s \in {"obj", "badobj", "close"}

\* raw.match(/\{[\s\S]*\}/): from the first "{" to the last "}" after it;
\* <<>> stands for no match (a match is never empty).
RegexBraces(segs) ==
    LET opens == {i \in 1..Len(segs) : HasOpen(segs[i])}
        closes == {i \in 1..Len(segs) : HasClose(segs[i])}
    IN IF opens = {} \/ closes = {} THEN <<>>
       ELSE LET first == CHOOSE i \in opens : \A j \in opens : i <= j
                last == CHOOSE i \in closes : \A j \in closes : j <= i
            IN IF last > first \/ (last = first /\ segs[first].s # "open")
               THEN SubSeq(segs, first, last)
               ELSE <<>>

\* JSON.parse of a span of segments: a single valid object, or a single
\* brace-free JSON text (white space and prose around it make it invalid).
JSONParseSegs(segs) ==
    IF Len(segs) = 1 /\ segs[1].s \in {"obj", "scalar"}
    THEN [ok |-> TRUE, value |-> segs[1].value]
    ELSE [ok |-> FALSE]

DefaultMetadata(st) ==
    Meta(st.topic, Str("CSE Placement Preparation"),
         Arr(<<Str("Concept 1"), Str("Concept 2"), Str("Concept 3"), Str("Concept 4")>>),
         Str("general"), Str(""), Str("Understand the fundamentals thoroughly."))

EmptyObject == Meta(Undef, Undef, Undef, Undef, Undef, Undef)

\* The inner try/catch: raw = content?.trim() || "{}", then the span (or the
\* raw text when nothing matches) is decoded; the default on any throw.
ParseImageMetadata(st, content) ==
    LET segs == IF content.k = "str" THEN content.segs ELSE <<>>
        raw == IF segs = <<>> THEN <<ObjSeg(EmptyObject)>> ELSE segs
        m == RegexBraces(raw)
        parsed == JSONParseSegs(IF m # <<>> THEN m ELSE raw)
    IN IF parsed.ok THEN parsed.value ELSE DefaultMetadata(st)

\* meta.f: undefined on a value that is not an object.
Field(meta, f) == IF meta.k = "object" THEN meta[f] ELSE Undef

\* Keys that CATEGORY_THEMES has itself.
ThemeKeys == {"dsa", "web", "system-design", "database", "os", "networking", "oop", "general"}
\* Keys every object inherits from Object.prototype: CATEGORY_THEMES[key]
\* is then a truthy value that is no theme.
InheritedKeys == {"constructor", "toString", "__proto__"}

ThemeOf(meta) ==
    LET c == Field(meta, "category")
    IN IF IsStr(c) /\ c.v \in ThemeKeys THEN c.v ELSE "general"

\* Whether generateTopicSVG(meta) raises a TypeError: reading a field of
\* null; escapeXml, substring, map or toUpperCase on a value that has no
\* such method; or a category that selects an inherited property.
RenderThrows(meta) ==
    \/ IsNullish(meta)
    \/ LET c == Field(meta, "category")
       IN \/ IsStr(c) /\ c.v \in InheritedKeys
          \/ Truthy(c) /\ ~IsStr(c)
    \/ \E f \in {"title", "subtitle", "codeSnippet", "interviewTip"} :
          Truthy(Field(meta, f)) /\ ~IsStr(Field(meta, f))
    \/ LET kc == Field(meta, "keyConcepts")
       IN Truthy(kc) /\ (kc.k # "array" \/ \E i \in 1..Len(kc.a) : ~IsStr(kc.a[i]))

\* The markup generateTopicSVG returns, by what it is rendered from.
generateTopicSVG(meta) ==
    [k |-> "svg",
     theme |-> ThemeOf(meta),
     title |-> OrDefault(Field(meta, "title"), Str("Topic")),
     subtitle |-> OrDefault(Field(meta, "subtitle"), Str("")),
     concepts |-> OrDefault(Field(meta, "keyConcepts"), Arr(<<>>)),
     code |-> OrDefault(Field(meta, "codeSnippet"), Str("")),
     tip |-> OrDefault(Field(meta, "interviewTip"), Str(""))]

Base64(bytes) == [b64 |-> bytes]
DataUri(svg) == [k |-> "str", uri |-> "data:image/svg+xml;base64,", payload |-> Base64(svg)]
PublicPath(now) == [k |-> "str", path |-> "/public/topic-", stamp |-> now, ext |-> ".svg"]

NoWrite == [name |-> "none"]

\* Mutant: the markup is written to a file in every deployment.
MediaImage_AlwaysWrites(st, resp, isVercel, fsOk, now) ==
    IF resp.kind = "raise"
    THEN [imageUrl |-> Null, failed |-> TRUE, write |-> NoWrite]
    ELSE LET meta == ParseImageMetadata(st, resp.content)
         IN IF RenderThrows(meta)
            THEN [imageUrl |-> Null, failed |-> TRUE, write |-> NoWrite]
            ELSE IF fsOk
            THEN [imageUrl |-> PublicPath(now), failed |-> FALSE,
                  write |-> [name |-> PublicPath(now), content |-> generateTopicSVG(meta)]]
            ELSE [imageUrl |-> Null, failed |-> TRUE, write |-> NoWrite]

\* Mutant: the markup carries the time of the call.
MediaImage_StampsMarkup(st, resp, isVercel, fsOk, now) ==
    IF resp.kind = "raise"
    THEN [imageUrl |-> Null, failed |-> TRUE, write |-> NoWrite]
    ELSE LET meta == ParseImageMetadata(st, resp.content)
             svg == [generateTopicSVG(meta) EXCEPT !.subtitle = Num(now)]
         IN IF RenderThrows(meta)
            THEN [imageUrl |-> Null, failed |-> TRUE, write |-> NoWrite]
            ELSE IF isVercel
            THEN [imageUrl |-> DataUri(svg), failed |-> FALSE, write |-> NoWrite]
            ELSE IF fsOk
            THEN [imageUrl |-> PublicPath(now), failed |-> FALSE,
                  write |-> [name |-> PublicPath(now), content |-> svg]]
            ELSE [imageUrl |-> Null, failed |-> TRUE, write |-> NoWrite]

\* Sub-task (a) from the point where the metadata call returned or raised:
\* the image URL (null on failure), whether the outer catch was taken, and
\* the file written.  isVercel is process.env.VERCEL, fsOk whether
\* fs.writeFileSync succeeds, now is Date.now().
MediaImage(st, resp, isVercel, fsOk, now) ==
    IF resp.kind = "raise"
    THEN [imageUrl |-> Null, failed |-> TRUE, write |-> NoWrite]
    ELSE LET meta == ParseImageMetadata(st, resp.content)
         IN IF RenderThrows(meta)
            THEN [imageUrl |-> Null, failed |-> TRUE, write |-> NoWrite]
            ELSE IF isVercel
            THEN [imageUrl |-> DataUri(generateTopicSVG(meta)), failed |-> FALSE,
                  write |-> NoWrite]
            ELSE IF fsOk
            THEN [imageUrl |-> PublicPath(now), failed |-> FALSE,
                  write |-> [name |-> PublicPath(now), content |-> generateTopicSVG(meta)]]
            ELSE [imageUrl |-> Null, failed |-> TRUE, write |-> NoWrite]

(***************************************************************************)
(* Media Engine, sub-task (b): narration text.                             *)
(***************************************************************************)
\* completion.choices[0]?.message?.content?.trim() || null
MediaAudio(resp) ==
    IF resp.kind = "raise"
    THEN [audioText |-> Null, failed |-> TRUE]
    ELSE LET trimmed == IF IsStr(resp.content) THEN Trim(resp.content) ELSE Undef
         IN [audioText |-> IF Truthy(trimmed) THEN trimmed ELSE Null, failed |-> FALSE]

\* The guard at the head of runMediaEngine.
MediaSkips(st) == st.rejected \/ ~Truthy(st.markdown)

InitLocals == [imageUrl |-> Null, audioText |-> Null, mediaFailed |-> FALSE]

\* Mutant: the stage stores the excerpt it narrated back into markdown.
runMediaEngine_StoresExcerpt(st, loc) ==
    [st EXCEPT !.markdown = Str("excerpt"),
               !.imageUrl = loc.imageUrl,
               !.audioText = loc.audioText,
               !.mediaFailed = loc.mediaFailed]

\* The record runMediaEngine returns.
runMediaEngine(st, loc) ==
    [st EXCEPT !.imageUrl = loc.imageUrl,
               !.audioText = loc.audioText,
               !.mediaFailed = loc.mediaFailed]

(***************************************************************************)
(* The inputs the model draws from.                                        *)
(***************************************************************************)
MaxDurationIn == 7
MaxClock == 1
MaxDurationLen == 2

QueryInputs ==
    {Undef, Num(7), Str(""), Pad(""), Str("q1"), Pad("q1"), Str("q2")}

\* The characters of the duration strings, and every string of them up to
\* MaxDurationLen characters.
DurationAlphabet == {" ", "-", ".", "0", "2", "7", "a"}
DurationStrings ==
    UNION {[1..n -> DurationAlphabet] : n \in 0..MaxDurationLen}

DurationInputs ==
    {Undef, Null} \cup {Num(n) : n \in (0 - MaxDurationIn)..MaxDurationIn}
      \cup {Chars(<<"4">>), Chars(<<"9">>), Chars(<<"a">>), Chars(<<"3", "x">>),
            Chars(<<"-", "1">>), Chars(<<" ", "2">>), Chars(<<>>)}
      \cup {Chars(c) : c \in DurationStrings}

ErrorMessages == {"timeout"}

Classifications ==
    {Str("placement_topic"), Str("irrelevant"), Str("harmful"), Str("spam"), Undef, Null}
Reasons == {Str("r1"), Undef}
DetectedTopics == {Str("T1"), Str(""), Null, Undef}

SupervisorJson ==
    {Invalid, Null, Num(5)}
      \cup {ClsObj(c, r, d) : c \in Classifications, r \in Reasons, d \in DetectedTopics}

\* Every JSON text bare, and some of them padded and inside code fences.
SupervisorResponses ==
    {Raise(m) : m \in ErrorMessages}
      \cup {Returned(JsonText(FALSE, FALSE, j)) : j \in SupervisorJson}
      \cup {Returned(JsonText(TRUE, TRUE, j)) :
               j \in {Invalid,
                      ClsObj(Str("placement_topic"), Str("r1"), Str("T1")),
                      ClsObj(Str("harmful"), Str("r1"), Undef)}}

ResearcherResponses ==
    {Raise(m) : m \in ErrorMessages}
      \cup {Returned(c) : c \in {Str("md"), Pad("md"), Str(""), Pad("")}}

GoodConcepts == Arr(<<Str("c1"), Str("c2"), Str("c3"), Str("c4")>>)
GoodMeta == Meta(Str("Title"), Str("Sub"), GoodConcepts, Str("dsa"), Str("x = 1;"), Str("tip"))

\* Objects that are valid JSON and do not match the ImageMetadata shape.
MisshapenMetas ==
    {EmptyObject,
     Meta(Num(5), Str("Sub"), GoodConcepts, Str("dsa"), Str("x = 1;"), Str("tip")),
     Meta(Str("Title"), Str("Sub"), Str("c1, c2"), Str("dsa"), Str("x = 1;"), Str("tip")),
     Meta(Str("Title"), Str("Sub"), Arr(<<Str("c1"), Null>>), Str("dsa"), Str("x = 1;"), Str("tip")),
     Meta(Str("Title"), Str("Sub"), GoodConcepts, Num(3), Str("x = 1;"), Str("tip")),
     Meta(Str("Title"), Str("Sub"), GoodConcepts, Str("constructor"), Str("x = 1;"), Str("tip")),
     Meta(Str("Title"), Str("Sub"), GoodConcepts, Str("cooking"), Str("x = 1;"), Str("tip")),
     Meta(Str("Title"), Str("Sub"), GoodConcepts, Str("dsa"), Arr(<<Str("x = 1;")>>), Str("tip")),
     Meta(Str("Title"), Null, GoodConcepts, Str("dsa"), Str(""), Num(0))}

ImageContents ==
    {Undef, ImgText(<<>>), ImgText(<<Prose>>), ImgText(<<Scalar(Null)>>),
     ImgText(<<Scalar(Num(5))>>), ImgText(<<OpenBrace, Prose>>), ImgText(<<BadObj>>),
     ImgText(<<CloseBrace, OpenBrace>>),
     ImgText(<<ObjSeg(GoodMeta)>>), ImgText(<<Prose, ObjSeg(GoodMeta), Prose>>),
     ImgText(<<ObjSeg(GoodMeta), Prose, CloseBrace>>),
     ImgText(<<ObjSeg(GoodMeta), ObjSeg(EmptyObject)>>)}
      \cup {ImgText(<<ObjSeg(m)>>) : m \in MisshapenMetas}

ImageResponses ==
    {Raise(m) : m \in ErrorMessages} \cup {Returned(c) : c \in ImageContents}

AudioResponses ==
    {Raise(m) : m \in ErrorMessages}
      \cup {Returned(c) : c \in {Undef, Str("narration"), Pad("narration"), Str(""), Pad("")}}

(***************************************************************************)
(* The state machine of one request to POST /api/chat (Express).           *)
(***************************************************************************)
Sites == {"supervisor", "researcher", "image", "audio"}

Init ==
    /\ pc = "idle"
    /\ state = ChannelDefaults
    /\ supOut = NoOut
    /\ executed = <<>>
    /\ llmRequests = <<>>
    /\ llmResp = [s \in Sites |-> NoResp]
    /\ locals = InitLocals
    /\ sub = [a |-> "none", b |-> "none"]
    /\ vercel \in BOOLEAN
    /\ files = {}
    /\ http = [status |-> 0]
    /\ fn = Idle
    /\ api = Idle
    /\ client = Idle
    /\ conc = Idle

\* The route's check of the request body.
QueryValid(q) == Truthy(q) /\ IsStr(q) /\ Trim(q).v # ""

\* router.post up to its first await: a 400 for a missing query; otherwise
\* the initial state is built, the graph is entered at the supervisor, and
\* runSupervisor issues its LLM request.
Invoke(q, d) ==
    /\ pc = "idle"
    /\ IF ~QueryValid(q)
       THEN /\ pc' = "responded"
            /\ http' = [status |-> 400, error |-> "Query is required"]
            /\ UNCHANGED <<state, executed, llmRequests>>
       ELSE /\ pc' = "supervisorAwait"
            /\ state' = createInitialState(Trim(q), OrDefault(ParseInt(d), Num(3)))
            /\ executed' = <<"supervisor">>
            /\ llmRequests' = <<"supervisor">>
            /\ UNCHANGED http
    /\ UNCHANGED <<supOut, llmResp, locals, sub, vercel, files, others>>

\* The supervisor's LLM call returns or raises; the node returns, its
\* output is merged into the channels and the conditional edge is taken.
SupervisorReturn(resp) ==
    /\ pc = "supervisorAwait"
    /\ LET out == runSupervisor(state, resp)
           merged == MergeState(state, out)
       IN /\ supOut' = out
          /\ state' = merged
          /\ pc' = IF routeAfterSupervisor(merged) = "end" THEN "done" ELSE "atResearcher"
    /\ llmResp' = [llmResp EXCEPT !["supervisor"] = resp]
    /\ UNCHANGED <<executed, llmRequests, locals, sub, vercel, files, http, others>>

\* runResearcher is called: a pass-through when rejected, else its LLM
\* request is issued.
ResearcherStart ==
    /\ pc = "atResearcher"
    /\ executed' = Append(executed, "researcher")
    /\ IF state.rejected
       THEN /\ pc' = "atMedia"
            /\ UNCHANGED llmRequests
       ELSE /\ pc' = "researcherAwait"
            /\ llmRequests' = Append(llmRequests, "researcher")
    /\ UNCHANGED <<state, supOut, llmResp, locals, sub, vercel, files, http, others>>

\* Mutant: a failed content call sends the graph back to the researcher.
ResearcherReturn_Retries(resp) ==
    /\ pc = "researcherAwait"
    /\ state' = IF resp.kind = "raise" THEN state
                ELSE MergeState(state, runResearcher(state, resp))
    /\ pc' = IF resp.kind = "raise" THEN "atResearcher" ELSE "atMedia"
    /\ llmResp' = [llmResp EXCEPT !["researcher"] = resp]
    /\ UNCHANGED <<supOut, executed, llmRequests, locals, sub, vercel, files, http, others>>

ResearcherReturn(resp) ==
    /\ pc = "researcherAwait"
    /\ state' = MergeState(state, runResearcher(state, resp))
    /\ pc' = "atMedia"
    /\ llmResp' = [llmResp EXCEPT !["researcher"] = resp]
    /\ UNCHANGED <<supOut, executed, llmRequests, locals, sub, vercel, files, http, others>>

\* runMediaEngine is called: a pass-through when rejected or without
\* markdown, else the metadata request is issued.
MediaStart ==
    /\ pc = "atMedia"
    /\ executed' = Append(executed, "mediaEngine")
    /\ IF MediaSkips(state)
       THEN /\ pc' = "done"
            /\ UNCHANGED <<llmRequests, locals>>
       ELSE /\ pc' = "imageAwait"
            /\ locals' = InitLocals
            /\ llmRequests' = Append(llmRequests, "image")
    /\ UNCHANGED <<state, supOut, llmResp, sub, vercel, files, http, others>>

\* The metadata call returns or raises; sub-task (a) ends and sub-task (b)
\* issues its request.
MediaImageReturn(resp, fsOk, now) ==
    /\ pc = "imageAwait"
    /\ LET a == MediaImage(state, resp, vercel, fsOk, now)
       IN /\ locals' = [locals EXCEPT !.imageUrl = a.imageUrl,
                                      !.mediaFailed = a.failed]
          /\ sub' = [sub EXCEPT !.a = IF a.failed THEN "failed" ELSE "ok"]
          /\ files' = IF a.write = NoWrite THEN files
                      ELSE {f \in files : f.name # a.write.name} \cup {a.write}
    /\ llmResp' = [llmResp EXCEPT !["image"] = resp]
    /\ llmRequests' = Append(llmRequests, "audio")
    /\ pc' = "audioAwait"
    /\ UNCHANGED <<state, supOut, executed, vercel, http, others>>

\* The narration call returns or raises; the node returns and its output
\* is merged into the channels.
MediaAudioReturn(resp) ==
    /\ pc = "audioAwait"
    /\ LET b == MediaAudio(resp)
           loc == [locals EXCEPT !.audioText = b.audioText,
                                 !.mediaFailed = locals.mediaFailed \/ b.failed]
       IN /\ locals' = loc
          /\ sub' = [sub EXCEPT !.b = IF b.failed THEN "failed" ELSE "ok"]
          /\ state' = MergeState(state, runMediaEngine(state, loc))
    /\ llmResp' = [llmResp EXCEPT !["audio"] = resp]
    /\ pc' = "done"
    /\ UNCHANGED <<supOut, executed, llmRequests, vercel, files, http, others>>

\* graph.invoke resolved: the route sends the result.
Respond ==
    /\ pc = "done"
    /\ pc' = "responded"
    /\ http' = [status |-> 200, body |-> state]
    /\ UNCHANGED <<state, supOut, executed, llmRequests, llmResp, locals, sub, vercel, files, others>>

Next ==
    \/ \E q \in QueryInputs, d \in DurationInputs : Invoke(q, d)
    \/ \E r \in SupervisorResponses : SupervisorReturn(r)
    \/ ResearcherStart
    \/ \E r \in ResearcherResponses : ResearcherReturn(r)
    \/ MediaStart
    \/ \E r \in ImageResponses, fsOk \in BOOLEAN, now \in 1..MaxClock :
          MediaImageReturn(r, fsOk, now)
    \/ \E r \in AudioResponses : MediaAudioReturn(r)
    \/ Respond

Spec == Init /\ [][Next]_vars

(***************************************************************************)
(* Properties of the graph invocation.                                     *)
(***************************************************************************)
Terminal == pc \in {"done", "responded"} /\ supOut # NoOut
IsSet(v) == ~IsNullish(v)

\* The classification the LLM's response carries, whatever surrounds the
\* JSON text; undefined when it carries none.
ReturnedObject(resp) ==
    resp.kind = "text" /\ resp.content.json.k = "object"
ReturnedClassification(resp) ==
    IF ReturnedObject(resp) THEN resp.content.json.classification ELSE Undef

C2_AcceptedRunsContentThenMedia ==
    (Terminal /\ supOut.classification = Str("placement_topic")) =>
        /\ executed = <<"supervisor", "researcher", "mediaEngine">>
        /\ IsSet(state.markdown)

C2_Witness ==
    /\ Terminal
    /\ supOut.classification = Str("placement_topic")
    /\ llmResp["researcher"] = Returned(Str(""))
    /\ state.markdown = Str("")

\* C3: at the end of an invocation exactly one of rejected = true and
\* "markdown is set" holds.
C3_RejectedXorMarkdown ==
    Terminal => (state.rejected # IsSet(state.markdown))

C3_Witness ==
    /\ Terminal
    /\ ~state.rejected
    /\ llmResp["supervisor"].kind = "raise"
    /\ llmResp["researcher"].kind = "raise"
    /\ llmResp["audio"].kind = "raise"
    /\ IsSet(state.markdown)

ThreeCategories == {Str("placement_topic"), Str("irrelevant"), Str("harmful")}

\* The fail-open result: the initial state with rejected = false, topic =
\* query and classification = placement_topic.
ImplicitAcceptance(out) ==
    out = [createInitialState(out.query, Num(out.duration)) EXCEPT
               !.topic = out.query,
               !.classification = Str("placement_topic")]

\* C4 (as claimed): when the LLM call raised, or its text is not JSON, or
\* the JSON is not an object whose classification is one of the three
\* categories, runSupervisor returns the implicit acceptance.
C4_FailOpenOnUnexpectedShape ==
    (supOut # NoOut
       /\ (~ReturnedObject(llmResp["supervisor"])
             \/ ReturnedClassification(llmResp["supervisor"]) \notin ThreeCategories))
    => ImplicitAcceptance(supOut)

\* C5: when the Content LLM call raised, state.markdown is the placeholder
\* that names state.topic (a string) and the error message, every other
\* field is as the Classifier left it, and the Media node then runs on the
\* placeholder: both of its LLM requests are issued.
C5_ContentFailureSubstituted ==
    (llmResp["researcher"].kind = "raise") =>
        /\ IsStr(state.topic)
        /\ state.markdown =
              Str(PlaceholderHead \o state.topic.v \o PlaceholderMid
                    \o llmResp["researcher"].msg \o PlaceholderTail)
        /\ [state EXCEPT !.markdown = Null, !.imageUrl = Null,
                         !.audioText = Null, !.mediaFailed = FALSE] = supOut
        /\ (pc = "atMedia" => [state EXCEPT !.markdown = Null] = supOut)
        /\ (Terminal =>
              /\ executed = <<"supervisor", "researcher", "mediaEngine">>
              /\ llmRequests = <<"supervisor", "researcher", "image", "audio">>)

C5_Witness ==
    /\ Terminal
    /\ llmResp["researcher"].kind = "raise"
    /\ llmResp["image"].kind = "text"
    /\ IsSet(state.imageUrl)

MediaRan == sub.a # "none"

\* C6 (as claimed): when the Media node ran, both sub-tasks were attempted,
\* imageUrl is set exactly when sub-task (a) did not fail, audioText is set
\* exactly when sub-task (b) did not fail, and mediaFailed is the
\* disjunction of the two failures.
C6_MediaSubtasksIndependent ==
    (Terminal /\ MediaRan) =>
        /\ sub.b # "none"
        /\ llmRequests = <<"supervisor", "researcher", "image", "audio">>
        /\ (IsSet(state.imageUrl) <=> sub.a = "ok")
        /\ (IsSet(state.audioText) <=> sub.b = "ok")
        /\ (state.mediaFailed <=> (sub.a = "failed" \/ sub.b = "failed"))

\* C7 (as claimed): whenever the visual-metadata call returned a text,
\* sub-task (a) did not fail and imageUrl is set.  Stated for the
\* deployment that writes no file, where nothing but the response text
\* decides the outcome.
C7_OnlyCallFailureFailsVisual ==
    (MediaRan /\ llmResp["image"].kind = "text" /\ vercel) =>
        /\ sub.a = "ok"
        /\ IsSet(locals.imageUrl)

\* C8 (as claimed): when the LLM's answer has classification
\* placement_topic, state.topic is the answer's detectedTopic if that is a
\* non-empty string, and the query otherwise.
C8_TopicIsDetectedTopic ==
    (supOut # NoOut
       /\ ReturnedClassification(llmResp["supervisor"]) = Str("placement_topic")) =>
        LET d == llmResp["supervisor"].content.json.detectedTopic
        IN state.topic = IF IsStr(d) /\ d.v # "" THEN d ELSE state.query

\* C9: in every state with rejected = true, markdown, imageUrl, audioText
\* and topic are absent and mediaFailed is false, so no step after the
\* Classifier's has changed them; the response sent carries the same.
C9_RejectedLeavesOutputsAbsent ==
    (supOut # NoOut /\ state.rejected) =>
        /\ state.markdown = Null
        /\ state.imageUrl = Null
        /\ state.audioText = Null
        /\ state.topic = Null
        /\ ~state.mediaFailed
        /\ (http.status = 200 => http.body = state)

C9_Witness ==
    /\ pc = "responded"
    /\ state.rejected
    /\ state.classification = Str("harmful")
    /\ http.status = 200
    /\ http.body.markdown = Null

ReasonTexts == {ToStr(r) : r \in Reasons}

\* C10: an answer with classification harmful gives rejected = true and a
\* rejectionReason that is the harmful marker followed by the answer's
\* reason; one with irrelevant gives rejected = true and the off-topic
\* marker followed by the reason; and no reason made for one class is a
\* reason the other class's marker could have made.
C10_RejectionMarkers ==
    LET resp == llmResp["supervisor"]
        cls == ReturnedClassification(resp)
        reason == ToStr(resp.content.json.reason)
    IN (supOut # NoOut /\ cls \in {Str("harmful"), Str("irrelevant")}) =>
          /\ state.rejected
          /\ state.classification = cls
          /\ cls = Str("harmful") =>
                /\ state.rejectionReason = Str(HarmfulMarker \o reason)
                /\ \A r \in ReasonTexts : state.rejectionReason # Str(IrrelevantMarker \o r)
          /\ cls = Str("irrelevant") =>
                /\ state.rejectionReason = Str(IrrelevantMarker \o reason)
                /\ \A r \in ReasonTexts : state.rejectionReason # Str(HarmfulMarker \o r)

C10_Witness ==
    /\ Terminal
    /\ ReturnedClassification(llmResp["supervisor"]) = Str("harmful")
    /\ llmResp["supervisor"].content.fenced
    /\ state.rejectionReason = Str(HarmfulMarker \o "r1")


(***************************************************************************)
(* Functions of the program applied to one input: each action applies one  *)
(* function, as its caller does, and records the input and the result.     *)
(***************************************************************************)
\* The request to the Express route is not in progress.
PipelineIdle ==
    /\ pc = "idle"
    /\ state = ChannelDefaults
    /\ supOut = NoOut
    /\ executed = <<>>
    /\ llmRequests = <<>>
    /\ llmResp = [s \in Sites |-> NoResp]
    /\ locals = InitLocals
    /\ sub = [a |-> "none", b |-> "none"]
    /\ vercel = FALSE
    /\ files = {}
    /\ http = [status |-> 0]

pipelineVars ==
    <<pc, state, supOut, executed, llmRequests, llmResp, locals, sub, vercel, files, http>>

FnInit ==
    /\ PipelineIdle
    /\ fn = Idle
    /\ api = Idle
    /\ client = Idle
    /\ conc = Idle

\* The route's lines 25-26 on a request body's duration: parseInt, the
\* default, then createInitialState's clamp.
StoreDuration(d) ==
    /\ fn.pc = "idle"
    /\ fn' = [pc |-> "duration", arg |-> d,
              out |-> createInitialState(Str("q1"), OrDefault(ParseInt(d), Num(3))).duration]
    /\ UNCHANGED <<pipelineVars, api, conc, client>>

\* A string that is a number written out: an optional sign and digits only.
IsNumericString(c) ==
    LET t == IF Len(c) > 0 /\ c[1] = "-" THEN Tail(c) ELSE c
    IN Len(t) > 0 /\ \A i \in 1..Len(t) : t[i] \in Digits
NumericStringValue(c) ==
    LET neg == c[1] = "-"
        t == IF neg THEN Tail(c) ELSE c
        n == LeadingDigits(t, 1, [n |-> 0, len |-> 0]).n
    IN IF neg THEN 0 - n ELSE n
\* Absent, or a string with no digit in it.
IsAbsentOrNonNumeric(d) ==
    \/ IsNullish(d)
    \/ d.k = "str" /\ \A i \in 1..Len(d.c) : d.c[i] \notin Digits
Clamped(n) == IF n < 2 THEN 2 ELSE IF n > 5 THEN 5 ELSE n

\* C11: the duration stored for a request whose body carries duration d is
\* an integer in [2,5]; a number, or a string that writes a number out, is
\* kept when in [2,5], becomes 2 when below 2 and 5 when above 5; an
\* absent value or a string without digits becomes 3.
C11_StoredDurationClamped ==
    fn.pc = "duration" =>
        /\ fn.out \in 2..5
        /\ fn.arg.k = "num" => fn.out = Clamped(fn.arg.n)
        /\ (fn.arg.k = "str" /\ IsNumericString(fn.arg.c)) =>
               fn.out = Clamped(NumericStringValue(fn.arg.c))
        /\ IsAbsentOrNonNumeric(fn.arg) => fn.out = 3


(***************************************************************************)
(* Content's table from duration to word count and label, and the lookup   *)
(* DURATION_MAP[duration] || DURATION_MAP[3].                              *)
(***************************************************************************)
\* The number n + 0.5.
Half(n) == [k |-> "num", h |-> n]
ConfigEntry(words, label) == [k |-> "object", words |-> Num(words), label |-> Str(label)]
DurationKeys == {"2", "3", "4", "5"}
DURATION_MAP(key) ==
    CASE key = "2" -> ConfigEntry(300, "concise")
      [] key = "3" -> ConfigEntry(450, "moderate")
      [] key = "4" -> ConfigEntry(600, "detailed")
      [] key = "5" -> ConfigEntry(750, "comprehensive")

\* The property key a value is converted to by obj[value]; "" stands for
\* every key that is neither in the table nor inherited.
PropertyKey(v) ==
    CASE v.k = "num" /\ "n" \in DOMAIN v ->
             (CASE v.n = 2 -> "2" [] v.n = 3 -> "3" [] v.n = 4 -> "4" [] v.n = 5 -> "5"
                [] OTHER -> "")
      [] v.k = "str" /\ "v" \in DOMAIN v -> IF "ws" \in DOMAIN v THEN "" ELSE v.v
      [] v.k = "str" /\ "c" \in DOMAIN v ->
             IF Len(v.c) = 1 /\ v.c[1] \in DurationKeys THEN v.c[1] ELSE ""
      [] OTHER -> ""

\* A function every object inherits (Object, Object.prototype.toString).
InheritedProperty == [k |-> "function"]

\* DURATION_MAP[duration]
DurationMapGet(duration) ==
    LET key == PropertyKey(duration)
    IN IF key \in DurationKeys THEN DURATION_MAP(key)
       ELSE IF key \in InheritedKeys THEN InheritedProperty
       ELSE Undef

\* DURATION_MAP[duration] || DURATION_MAP[3]
DurationConfig(duration) ==
    OrDefault(DurationMapGet(duration), DURATION_MAP("3"))

\* The config's words and label as the prompt reads them.
ConfigWords(config) == IF config.k = "object" THEN config.words ELSE Undef
ConfigLabel(config) == IF config.k = "object" THEN config.label ELSE Undef


(***************************************************************************)
(* The serverless handler (api/chat.js): the same three stages called one  *)
(* after the other by the handler, without the graph.                      *)
(***************************************************************************)
\* What an async function ends with: a value, or an exception thrown.
Thrown(msg) == [kind |-> "throw", msg |-> msg]
Done(v) == [kind |-> "value", v |-> v]

PropDetectedTopic(v) == IF v.k = "object" THEN v.detectedTopic ELSE Undef

\* runSupervisor(query) from the point where model.invoke returned or
\* raised: no fence is stripped and nothing is caught.
apiRunSupervisor(query, resp) ==
    IF resp.kind = "raise" THEN Thrown(resp.msg)
    ELSE LET parsed == JSONParse(TrimJson(resp.content))
         IN IF ~parsed.ok THEN Thrown("Unexpected token")
            ELSE IF IsNullish(parsed.value) THEN Thrown("Cannot read properties of null")
            ELSE IF PropClassification(parsed.value) # Str("placement_topic")
                 THEN Done([rejected |-> TRUE,
                            rejectionReason |->
                                IF PropClassification(parsed.value) = Str("harmful")
                                THEN Str(HarmfulMarker \o ToStr(PropReason(parsed.value)))
                                ELSE Str(IrrelevantMarker \o ToStr(PropReason(parsed.value))),
                            classification |-> PropClassification(parsed.value),
                            topic |-> Null])
                 ELSE Done([rejected |-> FALSE,
                            rejectionReason |-> Undef,
                            classification |-> PropClassification(parsed.value),
                            topic |-> OrDefault(PropDetectedTopic(parsed.value), query)])

\* What runResearcher(topic, duration) puts into its system prompt:
\* config.label, config.words and the duration itself.
apiResearcherPrompt(duration) ==
    [label |-> ConfigLabel(DurationConfig(duration)),
     words |-> ConfigWords(DurationConfig(duration)),
     minutes |-> duration]

\* runResearcher from the point where model.invoke returned or raised.
apiRunResearcher(resp) ==
    IF resp.kind = "raise" THEN Thrown(resp.msg) ELSE Done(Trim(resp.content))

\* generateTopicSVG(topic, description), by what it is rendered from.
apiGenerateTopicSVG(topic, description) ==
    [k |-> "svg", title |-> OrDefault(topic, Str("Topic")), description |-> description]

\* The image step of runMediaEngine from the point where the completion
\* returned or raised.
apiMediaImage(topic, resp) ==
    IF resp.kind = "raise"
    THEN [imageUrl |-> Null, failed |-> TRUE]
    ELSE LET trimmed == IF IsStr(resp.content) THEN Trim(resp.content) ELSE Undef
             desc == OrDefault(trimmed, topic)
         IN [imageUrl |-> DataUri(apiGenerateTopicSVG(topic, desc)), failed |-> FALSE]

\* The request bodies' durations, and the descriptions the LLM gives.
ApiDurationInputs ==
    {Undef, Null} \cup {Num(n) : n \in (0 - 1)..MaxDurationIn}
      \cup {Chars(<<"4">>), Chars(<<"9">>), Chars(<<"a">>), Chars(<<>>), Str("constructor"), Half(2)}
ApiImageResponses ==
    {Raise(m) : m \in ErrorMessages} \cup {Returned(c) : c \in {Undef, Str("desc"), Str("")}}

ApiInit ==
    /\ PipelineIdle
    /\ fn = Idle
    /\ api = Idle
    /\ client = Idle
    /\ conc = Idle

\* The handler's variables once the body is read.
ApiRequest(q, d) ==
    [pc |-> "supervisorAwait",
     req |-> [query |-> q, duration |-> d],
     query |-> q,
     duration |-> IF d = Undef THEN Num(3) ELSE d,
     requests |-> <<>>,
     resp |-> [supervisor |-> NoResp, researcher |-> NoResp],
     sup |-> NoOut,
     prompt |-> Null,
     markdown |-> Null,
     imageUrl |-> Null,
     audioText |-> Null,
     mediaFailed |-> FALSE,
     audioDuration |-> Null,
     http |-> [status |-> 0]]

ApiFailed(msg) == [status |-> 500, error |-> "AI processing failed: " \o msg]

\* handler up to its first await: the body is read, the query and the API
\* key are checked, and runSupervisor issues its LLM request.
ApiHandler(q, d, key) ==
    /\ api.pc = "idle"
    /\ LET a == ApiRequest(q, d)
       IN api' =
            IF IsNullish(q) \/ (IsStr(q) /\ Trim(q).v = "")
            THEN [a EXCEPT !.pc = "responded",
                           !.http = [status |-> 400, error |-> "Query is required"]]
            ELSE IF ~IsStr(q)
            THEN [a EXCEPT !.pc = "responded",
                           !.http = ApiFailed("query?.trim is not a function")]
            ELSE IF ~key
            THEN [a EXCEPT !.pc = "responded",
                           !.http = [status |-> 500, error |-> "GROQ_API_KEY is missing"]]
            ELSE [a EXCEPT !.query = Trim(q), !.requests = <<"supervisor">>]
    /\ UNCHANGED <<pipelineVars, fn, conc, client>>

\* The body of the 200 response.
ApiBody(a) ==
    [query |-> a.query, topic |-> a.sup.topic, duration |-> a.duration,
     rejected |-> a.sup.rejected,
     rejectionReason |-> IF a.sup.rejected THEN a.sup.rejectionReason ELSE Null,
     classification |-> a.sup.classification,
     markdown |-> a.markdown, imageUrl |-> a.imageUrl, audioText |-> a.audioText,
     mediaFailed |-> a.mediaFailed]

\* runSupervisor's LLM call returns or raises: the exception reaches the
\* handler's catch; a rejection is answered at once; otherwise
\* runResearcher issues its request.
ApiSupervisorReturn(resp) ==
    /\ api.pc = "supervisorAwait"
    /\ LET r == apiRunSupervisor(api.query, resp)
           a == [api EXCEPT !.resp.supervisor = resp]
       IN api' =
            IF r.kind = "throw"
            THEN [a EXCEPT !.pc = "responded", !.http = ApiFailed(r.msg)]
            ELSE IF r.v.rejected
            THEN LET b == [a EXCEPT !.sup = r.v]
                 IN [b EXCEPT !.pc = "responded",
                              !.http = [status |-> 200, body |-> ApiBody(b)]]
            ELSE [a EXCEPT !.sup = r.v,
                           !.pc = "researcherAwait",
                           !.prompt = apiResearcherPrompt(a.duration),
                           !.requests = Append(a.requests, "researcher")]
    /\ UNCHANGED <<pipelineVars, fn, conc, client>>

\* runResearcher's LLM call returns or raises; runMediaEngine issues the
\* image request.
ApiResearcherReturn(resp) ==
    /\ api.pc = "researcherAwait"
    /\ LET r == apiRunResearcher(resp)
           a == [api EXCEPT !.resp.researcher = resp]
       IN api' =
            IF r.kind = "throw"
            THEN [a EXCEPT !.pc = "responded", !.http = ApiFailed(r.msg)]
            ELSE [a EXCEPT !.markdown = r.v,
                           !.pc = "imageAwait",
                           !.requests = Append(a.requests, "image")]
    /\ UNCHANGED <<pipelineVars, fn, conc, client>>

\* The image completion returns or raises; the narration request follows.
ApiImageReturn(resp) ==
    /\ api.pc = "imageAwait"
    /\ LET i == apiMediaImage(api.sup.topic, resp)
       IN api' = [api EXCEPT !.imageUrl = i.imageUrl,
                             !.mediaFailed = i.failed,
                             !.audioDuration = OrDefault(api.duration, Num(3)),
                             !.pc = "audioAwait",
                             !.requests = Append(api.requests, "audio")]
    /\ UNCHANGED <<pipelineVars, fn, conc, client>>

\* The narration completion returns or raises; the handler answers.
ApiAudioReturn(resp) ==
    /\ api.pc = "audioAwait"
    /\ LET b == MediaAudio(resp)
           a == [api EXCEPT !.audioText = b.audioText,
                            !.mediaFailed = api.mediaFailed \/ b.failed]
       IN api' = [a EXCEPT !.pc = "responded",
                           !.http = [status |-> 200, body |-> ApiBody(a)]]
    /\ UNCHANGED <<pipelineVars, fn, conc, client>>

ApiNext ==
    \/ \E q \in QueryInputs, d \in ApiDurationInputs, key \in BOOLEAN : ApiHandler(q, d, key)
    \/ \E r \in SupervisorResponses : ApiSupervisorReturn(r)
    \/ \E r \in ResearcherResponses : ApiResearcherReturn(r)
    \/ \E r \in ApiImageResponses : ApiImageReturn(r)
    \/ \E r \in AudioResponses : ApiAudioReturn(r)

ApiSpec == ApiInit /\ [][ApiNext]_vars


(***************************************************************************)
(* Properties of the serverless handler.                                   *)
(***************************************************************************)
IsDurationInRange(v) == v.k = "num" /\ "n" \in DOMAIN v /\ v.n \in 2..5
ApiAnswered == api.pc = "responded" /\ api.http.status = 200

\* C12: in the serverless handler the duration that Content puts into its
\* request, the one Media computes the narration length from, and the one
\* returned in the response are each an integer in [2,5], and 3 when the
\* request's duration is absent or has no digit.
C12_ServerlessDurationClamped ==
    api.pc # "idle" =>
        /\ api.prompt # Null => IsDurationInRange(api.prompt.minutes)
        /\ api.audioDuration # Null => IsDurationInRange(api.audioDuration)
        /\ ApiAnswered => IsDurationInRange(api.http.body.duration)
        /\ (ApiAnswered /\ "c" \in DOMAIN api.req.duration
              /\ IsAbsentOrNonNumeric(api.req.duration)) =>
               api.http.body.duration = Num(3)
        /\ (ApiAnswered /\ IsNullish(api.req.duration)) =>
               api.http.body.duration = Num(3)

\* The Classifier's LLM call failed, or its text is not JSON.
ApiClassifierFailed ==
    \/ api.resp.supervisor.kind = "raise"
    \/ api.resp.supervisor.kind = "text" /\ api.resp.supervisor.content.json = Invalid
ApiContentFailed == api.resp.researcher.kind = "raise"

\* C13: in the serverless handler a failed Classifier call, or a Classifier
\* answer that is not JSON, ends in a 200 response with rejected false, the
\* query as topic and classification placement_topic (unless another step
\* fails); a failed Content call ends in a 200 response whose markdown is
\* the placeholder, after Media's two requests were issued.
C13_ServerlessFailuresAbsorbed ==
    api.pc = "responded" /\ api.requests # <<>> =>
        /\ (ApiClassifierFailed /\ ~ApiContentFailed) =>
               /\ api.http.status = 200
               /\ api.http.body.rejected = FALSE
               /\ api.http.body.topic = api.query
               /\ api.http.body.classification = Str("placement_topic")
        /\ ApiContentFailed =>
               /\ api.http.status = 200
               /\ api.http.body.markdown =
                      Placeholder(api.sup.topic, api.resp.researcher.msg)
               /\ api.requests = <<"supervisor", "researcher", "image", "audio">>

\* C20: Content's word count and label are (300, concise) for duration 2,
\* (450, moderate) for 3, (600, detailed) for 4 and (750, comprehensive)
\* for 5, the number or the numeral; for every other duration value
\* they are (450, moderate).
C20_DurationTable ==
    api.pc # "idle" /\ api.prompt # Null =>
        LET key == PropertyKey(api.duration)
            expected == IF key \in DurationKeys THEN DURATION_MAP(key)
                        ELSE ConfigEntry(450, "moderate")
        IN /\ api.prompt.words = expected.words
           /\ api.prompt.label = expected.label
           /\ key = "2" => api.prompt.words = Num(300) /\ api.prompt.label = Str("concise")
           /\ key = "3" => api.prompt.words = Num(450) /\ api.prompt.label = Str("moderate")
           /\ key = "4" => api.prompt.words = Num(600) /\ api.prompt.label = Str("detailed")
           /\ key = "5" => api.prompt.words = Num(750) /\ api.prompt.label = Str("comprehensive")


(***************************************************************************)
(* The renderer's text (mediaEngine.js generateTopicSVG and its helpers),  *)
(* with strings as sequences of characters.                                *)
(***************************************************************************)
Rep(ch, n) == [i \in 1..n |-> ch]
\* s.substring(0, n)
Substring(s, n) == SubSeq(s, 1, Min(n, Len(s)))

\* s.replace(/ch/g, rep) for a character ch.
RECURSIVE ReplaceAll(_, _, _)
ReplaceAll(s, ch, rep) ==
    IF Len(s) = 0 THEN <<>>
    ELSE IF Len(s) = 1 THEN (IF s[1] = ch THEN rep ELSE s)
    ELSE LET h == Len(s) \div 2
         IN ReplaceAll(SubSeq(s, 1, h), ch, rep) \o ReplaceAll(SubSeq(s, h + 1, Len(s)), ch, rep)

AmpEntity == <<"&", "a", "m", "p", ";">>
LtEntity == <<"&", "l", "t", ";">>
GtEntity == <<"&", "g", "t", ";">>
QuotEntity == <<"&", "q", "u", "o", "t", ";">>
AposEntity == <<"&", "a", "p", "o", "s", ";">>

escapeXml(str) ==
    ReplaceAll(ReplaceAll(ReplaceAll(ReplaceAll(ReplaceAll(str,
        "&", AmpEntity), "<", LtEntity), ">", GtEntity), "\"", QuotEntity), "'", AposEntity)

\* s.toUpperCase() on the letters the model uses.
UpperChar(ch) ==
    CASE ch = "a" -> "A" [] ch = "b" -> "B" [] ch = "d" -> "D" [] ch = "s" -> "S"
      [] ch = "n" -> "N" [] OTHER -> ch
ToUpperCase(s) == [i \in 1..Len(s) |-> UpperChar(s[i])]

WhiteSpace == {" ", "\n"}
IsBlank(s) == \A i \in 1..Len(s) : s[i] \in WhiteSpace
NonBlank(s) == ~IsBlank(s)
\* The positions of s that hold no white space.
Inked(s) == {i \in 1..Len(s) : s[i] \notin WhiteSpace}
TrimStart(s) ==
    IF Inked(s) = {} THEN <<>>
    ELSE SubSeq(s, CHOOSE i \in Inked(s) : \A j \in Inked(s) : i <= j, Len(s))
TrimEnd(s) ==
    IF Inked(s) = {} THEN <<>>
    ELSE SubSeq(s, 1, CHOOSE i \in Inked(s) : \A j \in Inked(s) : i >= j)
TrimChars(s) == TrimEnd(TrimStart(s))

\* s.indexOf(d) + 1: where d first occurs in s, 0 when it does not.
IndexOf(s, d) ==
    LET hits == {i \in 1..(Len(s) - Len(d) + 1) : SubSeq(s, i, i + Len(d) - 1) = d}
    IN IF hits = {} THEN 0 ELSE CHOOSE i \in hits : \A j \in hits : i <= j

\* s.split(d) for a separator d of one or more characters.
RECURSIVE Split(_, _)
Split(s, d) ==
    LET i == IndexOf(s, d)
    IN IF i = 0 THEN <<s>>
       ELSE <<SubSeq(s, 1, i - 1)>> \o Split(SubSeq(s, i + Len(d), Len(s)), d)

\* s.replace(/;\s*/g, ';\n')
RECURSIVE BreakAfterSemicolons(_)
BreakAfterSemicolons(s) ==
    LET i == IndexOf(s, <<";">>)
    IN IF i = 0 THEN s
       ELSE SubSeq(s, 1, i) \o <<"\n">>
              \o BreakAfterSemicolons(TrimStart(SubSeq(s, i + 1, Len(s))))

\* The loop over the parts: a part that starts with } is outdented, the
\* parts after one that ends with { are indented.
RECURSIVE IndentParts(_, _)
IndentParts(parts, indent) ==
    IF parts = <<>> THEN <<>>
    ELSE LET trimmed == TrimChars(Head(parts))
             ind == IF Head(trimmed) = "}" THEN Max(0, indent - 1) ELSE indent
         IN <<Rep(" ", 2 * ind) \o trimmed>>
              \o IndentParts(Tail(parts),
                             IF trimmed[Len(trimmed)] = "{" THEN ind + 1 ELSE ind)

\* The fallback loop: words are joined into lines of about 50 characters.
RECURSIVE WrapWords(_, _, _)
WrapWords(words, currentLine, lines) ==
    IF words = <<>>
    THEN IF currentLine # <<>> THEN Append(lines, currentLine) ELSE lines
    ELSE LET word == Head(words)
         IN IF Len(currentLine) + 1 + Len(word) > 50 /\ Len(currentLine) > 0
            THEN WrapWords(Tail(words), <<" ", " ">> \o word, Append(lines, currentLine))
            ELSE WrapWords(Tail(words),
                           IF currentLine # <<>> THEN currentLine \o <<" ">> \o word
                           ELSE word,
                           lines)

\* Mutant: every line is shown.
CodeLines_NoSlice(codeLine) ==
    LET split == SelectSeq(Split(codeLine, <<"\\", "n">>), NonBlank)
        singleLine == IF split # <<>> THEN split[1] ELSE codeLine
        parts == SelectSeq(
                     Split(BreakAfterSemicolons(
                               ReplaceAll(ReplaceAll(singleLine, "{", <<"{", "\n">>),
                                          "}", <<"\n", "}", "\n">>)),
                           <<"\n">>),
                     NonBlank)
    IN IF Len(split) <= 1 /\ Len(codeLine) > 50
       THEN IF Len(parts) > 1
            THEN IndentParts(parts, 0)
            ELSE WrapWords(Split(singleLine, <<" ">>), <<>>, <<>>)
       ELSE split

\* The lines generateCodeBlock shows for the escaped snippet codeLine.
CodeLines(codeLine) ==
    LET split == SelectSeq(Split(codeLine, <<"\\", "n">>), NonBlank)
        singleLine == IF split # <<>> THEN split[1] ELSE codeLine
        parts == SelectSeq(
                     Split(BreakAfterSemicolons(
                               ReplaceAll(ReplaceAll(singleLine, "{", <<"{", "\n">>),
                                          "}", <<"\n", "}", "\n">>)),
                           <<"\n">>),
                     NonBlank)
        wrapped == IF Len(split) <= 1 /\ Len(codeLine) > 50
                   THEN IF Len(parts) > 1
                        THEN IndentParts(parts, 0)
                        ELSE WrapWords(Split(singleLine, <<" ">>), <<>>, <<>>)
                   ELSE split
    IN SubSeq(wrapped, 1, Min(10, Len(wrapped)))

\* The metadata with its strings as characters.
TextMeta(title, subtitle, keyConcepts, category, codeSnippet, interviewTip) ==
    [title |-> title, subtitle |-> subtitle, keyConcepts |-> keyConcepts,
     category |-> category, codeSnippet |-> codeSnippet, interviewTip |-> interviewTip]

\* a || b on strings
OrChars(a, b) == IF a # <<>> THEN a ELSE b

\* The text generateTopicSVG puts between tags: the header's category, the
\* title, the subtitle, each concept card's label, each line of the code
\* block and the tip.
svgText(meta) ==
    [category |-> escapeXml(ToUpperCase(OrChars(meta.category,
                                                 <<"g", "e", "n", "e", "r", "a", "l">>))),
     title |-> escapeXml(OrChars(meta.title, <<"T", "o", "p", "i", "c">>)),
     subtitle |-> escapeXml(meta.subtitle),
     cards |-> [i \in 1..Len(meta.keyConcepts) |->
                   Substring(escapeXml(meta.keyConcepts[i]), 18)],
     code |-> LET codeLine == escapeXml(Substring(meta.codeSnippet, 300))
              IN IF codeLine = <<>> THEN <<>> ELSE CodeLines(codeLine),
     tip |-> escapeXml(Substring(meta.interviewTip, 80))]


\* chipColors[i % chipColors.length], by its index in chipColors.
ChipColors == <<"accent", "accentAlt", "#10b981", "#f59e0b">>

\* The cards generateConceptCards draws (i counts from 1 here): the
\* rectangle's x, y and width, the colour, the label and the caption.
generateConceptCards(concepts) ==
    LET cardWidth == 145
        startX == 36
        y == 152
        gap == 8
    IN [i \in 1..Len(concepts) |->
           [x |-> startX + (i - 1) * (cardWidth + gap),
            y |-> y,
            width |-> cardWidth,
            color |-> ChipColors[((i - 1) % Len(ChipColors)) + 1],
            label |-> Substring(concepts[i], 18),
            caption |-> i]]

\* What generateCodeBlock draws: the panel's rectangle, the line numbers
\* and the lines of code with their baselines.
generateCodeBlock(codeLine) ==
    LET codeLines == CodeLines(codeLine)
    IN [panel |-> [y |-> 234, height |-> 24 + Len(codeLines) * 18],
        numbers |-> [i \in 1..Len(codeLines) |->
                        [y |-> 274 + (i - 1) * 18, text |-> i]],
        lines |-> [i \in 1..Len(codeLines) |->
                      [y |-> 274 + (i - 1) * 18, text |-> codeLines[i]]]]

\* What generateTipSection draws: the banner and the two baselines.
generateTipSection(tip) ==
    [banner |-> [y |-> 460, height |-> 48], heading |-> 480, text |-> [y |-> 498, text |-> tip]]

NoSection == [k |-> "empty"]

\* The sections generateTopicSVG places on the 700 x 560 canvas.
svgLayout(meta) ==
    LET concepts == [i \in 1..Len(meta.keyConcepts) |-> escapeXml(meta.keyConcepts[i])]
        codeLine == escapeXml(Substring(meta.codeSnippet, 300))
        tip == escapeXml(Substring(meta.interviewTip, 80))
    IN [width |-> 700, height |-> 560,
        conceptCards |-> generateConceptCards(concepts),
        codeBlock |-> IF codeLine # <<>> THEN generateCodeBlock(codeLine) ELSE NoSection,
        tipSection |-> IF tip # <<>> THEN generateTipSection(tip) ELSE NoSection]

\* The metadata the renderer is applied to: one field at a time carries
\* the five characters, around the lengths at which the fields are cut.
MaxConceptPrefix == 18
SpecialChars == {"&", "<", ">", "\"", "'"}
ConceptInputs ==
    {Rep("a", n) \o <<s>> \o Rep("b", m) :
        n \in 0..MaxConceptPrefix, s \in SpecialChars, m \in 0..1}
ShortTexts == {<<>>} \cup {<<"a", s, "b">> : s \in SpecialChars}
Repeat(s, n) == [i \in 1..(n * Len(s)) |-> s[((i - 1) % Len(s)) + 1]]
CodeInputs ==
    {<<>>, <<"a", "<", "b", ";">>,
     <<"a", "&", "b", "\\", "n", " ", "\\", "n", "c", "<", "d">>,
     Rep("a", 30) \o <<"&", ";", " ", " ">> \o Rep("b", 25) \o <<"{", "<", ";", "}", "x">>,
     Rep("a", 20) \o <<" ">> \o Rep("b", 20) \o <<" ", "<">> \o Rep("c", 20) \o <<" ", "'">>,
     Rep("a", 60),
     Rep("a", 298) \o <<"&", "<", ">">>,
     Repeat(<<"a", "\\", "n">>, 12),
     Repeat(<<"a", "b", "c", ";", " ">>, 12),
     Repeat(<<"i", "f", "{", "a", ";", "}">>, 9),
     Repeat(Rep("a", 26) \o <<" ">>, 11)}
TipInputs ==
    {<<>>} \cup {Rep("a", n) \o <<s, "<">> : n \in 78..79, s \in SpecialChars}
BaseTextMeta ==
    TextMeta(<<"a", "b">>, <<"a">>, <<<<"a">>>>, <<"d", "s", "a">>, <<"a", ";">>, <<"a">>)
TextMetas ==
    {[BaseTextMeta EXCEPT !.keyConcepts = <<c>>] : c \in ConceptInputs}
      \cup {[BaseTextMeta EXCEPT !.keyConcepts = k] :
               k \in {<<>>, <<<<"a", "&">>, <<"<", "b">>, <<"a">>, <<"b">>, <<"'">>>>}}
      \cup {[BaseTextMeta EXCEPT !.title = t] : t \in ShortTexts}
      \cup {[BaseTextMeta EXCEPT !.subtitle = t] : t \in ShortTexts}
      \cup {[BaseTextMeta EXCEPT !.category = t] : t \in ShortTexts}
      \cup {[BaseTextMeta EXCEPT !.codeSnippet = c] : c \in CodeInputs}
      \cup {[BaseTextMeta EXCEPT !.interviewTip = t] : t \in TipInputs}
      \cup {[BaseTextMeta EXCEPT !.keyConcepts = [i \in 1..n |-> <<"c">>]] : n \in 2..9}

\* generateTopicSVG is applied to a metadata object.
RenderText(meta) ==
    /\ fn.pc = "idle"
    /\ fn' = [pc |-> "svg", arg |-> meta, out |-> svgText(meta), layout |-> svgLayout(meta)]
    /\ UNCHANGED <<pipelineVars, api, conc, client>>

FnNext ==
    \/ \E d \in DurationInputs : StoreDuration(d)
    \/ \E m \in TextMetas : RenderText(m)

FnSpec == FnInit /\ [][FnNext]_vars

Entities == {AmpEntity, LtEntity, GtEntity, QuotEntity, AposEntity}
\* No < > " ' in s, and every & of s begins one of the five entities.
WellEscaped(s) ==
    \A i \in 1..Len(s) :
        /\ s[i] \notin {"<", ">", "\"", "'"}
        /\ s[i] = "&" =>
               \E e \in Entities :
                   i + Len(e) - 1 <= Len(s) /\ SubSeq(s, i, i + Len(e) - 1) = e

\* C14: in the markup rendered from metadata whose fields contain & < > "
\* or ', none of these characters is left unescaped in the header's
\* category, the title, the subtitle, the concept cards' labels, the code
\* block's lines and the tip, and every & there begins a complete entity,
\* also after the fields were cut to length and the code was split.
C14_TextEscaped ==
    fn.pc = "svg" =>
        /\ WellEscaped(fn.out.category)
        /\ WellEscaped(fn.out.title)
        /\ WellEscaped(fn.out.subtitle)
        /\ \A i \in 1..Len(fn.out.cards) : WellEscaped(fn.out.cards[i])
        /\ \A i \in 1..Len(fn.out.code) : WellEscaped(fn.out.code[i])
        /\ WellEscaped(fn.out.tip)


(***************************************************************************)
(* Properties of the Media stage's image.                                  *)
(***************************************************************************)
\* The markup rendered in this invocation, from the metadata call's answer.
RenderedMarkup ==
    generateTopicSVG(ParseImageMetadata(state, llmResp["image"].content))
IsDataUriOf(url, svg) ==
    /\ DOMAIN url = {"k", "uri", "payload"}
    /\ url.uri = "data:image/svg+xml;base64,"
    /\ url.payload = Base64(svg)

MaxNow == 2
Invocations == {1, 2}

\* States with which the graph enters runMediaEngine and passes its guard.
MediaEntryStates ==
    {[createInitialState(Str(q), Num(3)) EXCEPT
         !.topic = Str(q), !.classification = Str("placement_topic"),
         !.markdown = Str("md")] : q \in {"q1", "q2"}}
ConcImageResponses ==
    {Raise(m) : m \in ErrorMessages}
      \cup {Returned(c) : c \in {ImgText(<<Prose>>), ImgText(<<ObjSeg(GoodMeta)>>)}}
ConcAudioResponses ==
    {Raise(m) : m \in ErrorMessages} \cup {Returned(Str("narration"))}

\* The object the n-th call of buildAgentGraph returns.
CompiledGraph(n) == [k |-> "object", id |-> n]

\* Mutant: the graph is compiled for every request.
getGraph_AlwaysBuilds(compiledGraph, builds) ==
    [graph |-> CompiledGraph(builds + 1), builds |-> builds + 1]

\* getGraph(): the module's compiledGraph after the call, and how many
\* times buildAgentGraph has been called by then.
getGraph(compiledGraph, builds) ==
    IF ~Truthy(compiledGraph)
    THEN [graph |-> CompiledGraph(builds + 1), builds |-> builds + 1]
    ELSE [graph |-> compiledGraph, builds |-> builds]

ConcInit ==
    /\ PipelineIdle
    /\ fn = Idle
    /\ api = Idle
    /\ client = Idle
    /\ conc \in {[pc |-> "running", vercel |-> v, now |-> 1, files |-> {},
                  compiledGraph |-> Null, builds |-> 0,
                  inv |-> [i \in Invocations |-> Idle]] : v \in BOOLEAN}

\* router.post for request i up to its await: a 400 for a missing query;
\* otherwise the initial state is built, getGraph() is called and the
\* graph is invoked.
ConcArrive(i, q) ==
    /\ conc.inv[i].pc = "idle"
    /\ IF ~QueryValid(q)
       THEN conc' = [conc EXCEPT !.inv[i] = [pc |-> "answered", status |-> 400]]
       ELSE LET g == getGraph(conc.compiledGraph, conc.builds)
            IN conc' = [conc EXCEPT
                           !.compiledGraph = g.graph,
                           !.builds = g.builds,
                           !.inv[i] = [pc |-> "invoked", graph |-> g.graph,
                                       query |-> Trim(q)]]
    /\ UNCHANGED <<pipelineVars, fn, api, client>>

\* Invocation i enters runMediaEngine with state st and issues the
\* metadata request.
ConcMediaStart(i, st) ==
    /\ conc.inv[i].pc = "invoked"
    /\ st.query = conc.inv[i].query
    /\ conc' = [conc EXCEPT !.inv[i] =
                   [pc |-> "imageAwait", graph |-> conc.inv[i].graph,
                    entry |-> st, state |-> st, locals |-> InitLocals,
                    image |-> NoResp, audio |-> NoResp, svg |-> Null]]
    /\ UNCHANGED <<pipelineVars, fn, api, client>>

\* graph.invoke resolved for request i: the route answers, and the next
\* request may arrive.
ConcRespond(i) ==
    /\ conc.inv[i].pc = "done"
    /\ conc' = [conc EXCEPT !.inv[i] = [pc |-> "answered", status |-> 200]]
    /\ UNCHANGED <<pipelineVars, fn, api, client>>

ConcNextRequest(i) ==
    /\ conc.inv[i].pc = "answered"
    /\ conc' = [conc EXCEPT !.inv[i] = Idle]
    /\ UNCHANGED <<pipelineVars, fn, api, client>>

\* The metadata call of invocation i returns or raises: sub-task (a) ends,
\* writing its file at the present Date.now() where VERCEL is not set; svg
\* is what its call of generateTopicSVG returned, if it came to the call.
ConcImageReturn(i, resp, fsOk) ==
    /\ conc.inv[i].pc = "imageAwait"
    /\ LET a == MediaImage(conc.inv[i].state, resp, conc.vercel, fsOk, conc.now)
       IN conc' = [conc EXCEPT
                      !.inv[i].pc = "audioAwait",
                      !.inv[i].image = resp,
                      !.inv[i].locals.imageUrl = a.imageUrl,
                      !.inv[i].locals.mediaFailed = a.failed,
                      !.inv[i].svg =
                          IF a.write # NoWrite THEN a.write.content
                          ELSE IF a.imageUrl # Null THEN a.imageUrl.payload.b64
                          ELSE Null,
                      !.files = IF a.write = NoWrite THEN conc.files
                                ELSE {f \in conc.files : f.name # a.write.name}
                                       \cup {a.write}]
    /\ UNCHANGED <<pipelineVars, fn, api, client>>

\* The narration call of invocation i returns or raises; the node returns.
ConcAudioReturn(i, resp) ==
    /\ conc.inv[i].pc = "audioAwait"
    /\ LET b == MediaAudio(resp)
           loc == [conc.inv[i].locals EXCEPT
                      !.audioText = b.audioText,
                      !.mediaFailed = conc.inv[i].locals.mediaFailed \/ b.failed]
       IN conc' = [conc EXCEPT
                      !.inv[i].pc = "done",
                      !.inv[i].audio = resp,
                      !.inv[i].locals = loc,
                      !.inv[i].state =
                          MergeState(conc.inv[i].state,
                                     runMediaEngine(conc.inv[i].state, loc))]
    /\ UNCHANGED <<pipelineVars, fn, api, client>>

\* A millisecond passes.
ConcTick ==
    /\ conc.now < MaxNow
    /\ conc' = [conc EXCEPT !.now = conc.now + 1]
    /\ UNCHANGED <<pipelineVars, fn, api, client>>

ConcNext ==
    \/ \E i \in Invocations, q \in QueryInputs : ConcArrive(i, q)
    \/ \E i \in Invocations : ConcRespond(i)
    \/ \E i \in Invocations : ConcNextRequest(i)
    \/ \E i \in Invocations, st \in MediaEntryStates : ConcMediaStart(i, st)
    \/ \E i \in Invocations, r \in ConcImageResponses, fsOk \in BOOLEAN :
          ConcImageReturn(i, r, fsOk)
    \/ \E i \in Invocations, r \in ConcAudioResponses : ConcAudioReturn(i, r)
    \/ ConcTick

ConcSpec == ConcInit /\ [][ConcNext]_vars

\* What an image URL refers to: the data URI's decoded payload, or the
\* content of the file at that path.
Artifact(url) ==
    IF "payload" \in DOMAIN url THEN {url.payload.b64}
    ELSE {f.content : f \in {g \in conc.files : g.name = url}}

\* C16: for every interleaving of the invocations in flight, the image
\* that a finished invocation's imageUrl refers to is the markup rendered
\* from that invocation's own state and metadata answer, as when it runs
\* alone: no invocation overwrites another's image.
C16_InvocationsIsolated ==
    \A i \in Invocations :
        (conc.inv[i].pc = "done" /\ IsSet(conc.inv[i].state.imageUrl)) =>
            Artifact(conc.inv[i].state.imageUrl) =
                {generateTopicSVG(ParseImageMetadata(conc.inv[i].entry,
                                                     conc.inv[i].image.content))}


(***************************************************************************)
(* Properties of the PipelineState across the steps of the graph.          *)
(***************************************************************************)
\* The fields that are absent (null) until a stage fills them in.
NullableFields ==
    {"query", "topic", "rejectionReason", "classification", "markdown", "imageUrl",
     "audioText"}

\* C17: in every step of the graph no field of the PipelineState that
\* holds a value becomes absent again, and rejected never changes from
\* true to false.
C17_MonotoneFill ==
    [][/\ \A f \in NullableFields : IsSet(state[f]) => IsSet(state'[f])
       /\ state.rejected => state'.rejected]_vars
C17_Witness ==
    /\ pc = "done"
    /\ \A f \in NullableFields \ {"rejectionReason"} : IsSet(state[f])
    /\ ~state.rejected


Changed(f) == state'[f] # state[f]

\* C18: within an invocation topic, rejected, rejectionReason and
\* classification change only in the step in which the Classifier
\* returns, markdown only in the step in which Content returns, imageUrl,
\* audioText and mediaFailed only in the step in which Media returns, and
\* query and duration only when the initial state is built.
C18_FieldOwnership ==
    [][/\ (\E f \in {"topic", "rejected", "rejectionReason", "classification"} : Changed(f))
             => (pc = "supervisorAwait" /\ executed = <<"supervisor">>)
       /\ Changed("markdown")
             => (pc = "researcherAwait" /\ executed = <<"supervisor", "researcher">>)
       /\ (\E f \in {"imageUrl", "audioText", "mediaFailed"} : Changed(f))
             => (pc = "audioAwait"
                   /\ executed = <<"supervisor", "researcher", "mediaEngine">>)
       /\ (Changed("query") \/ Changed("duration")) => pc = "idle"]_vars
C18_Witness ==
    /\ pc = "done"
    /\ executed = <<"supervisor", "researcher", "mediaEngine">>
    /\ state.query = Str("q2") /\ state.duration = 5
    /\ IsSet(state.topic) /\ IsSet(state.markdown)
    /\ IsSet(state.imageUrl) /\ state.mediaFailed


\* C19: once the Classifier has returned, state.classification is one of
\* placement_topic, irrelevant and harmful, rejected is true exactly when
\* it is not placement_topic, and Content is only called for a query
\* classified placement_topic, whatever the LLM answered or however its
\* call failed.
C19_ClassificationIsOneOfThree ==
    supOut # NoOut =>
        /\ state.classification \in ThreeCategories
        /\ state.rejected <=> state.classification # Str("placement_topic")
        /\ (\E i \in 1..Len(executed) : executed[i] = "researcher")
               => state.classification = Str("placement_topic")


(***************************************************************************)
(* Progress of a request.  The route and the nodes take their own steps    *)
(* whenever they can; nothing in the route, the graph or the nodes sets a  *)
(* timer or a deadline, so whether an awaited LLM call ever returns or     *)
(* raises is up to the provider.                                           *)
(***************************************************************************)
AwaitingLlm == pc \in {"supervisorAwait", "researcherAwait", "imageAwait", "audioAwait"}

\* The steps that do not wait for the provider.
ProgramStep ==
    \/ \E q \in QueryInputs, d \in DurationInputs : Invoke(q, d)
    \/ ResearcherStart
    \/ MediaStart
    \/ Respond

\* The provider may leave a call unresolved for ever.
UnboundedSpec == Init /\ [][Next]_vars /\ WF_vars(ProgramStep)

\* The provider resolves every call, so no call stays outstanding for
\* ever, and the program takes the steps it can take on its own.  The request
\* bodies are narrowed to one missing and one present query; the answers
\* of the provider are all kept.
FairNext ==
    \/ \E q \in {Str(""), Str("q1")} : Invoke(q, Undef)
    \/ \E r \in SupervisorResponses : SupervisorReturn(r)
    \/ ResearcherStart
    \/ \E r \in ResearcherResponses : ResearcherReturn(r)
    \/ MediaStart
    \/ \E r \in ImageResponses, fsOk \in BOOLEAN, now \in 1..MaxClock :
          MediaImageReturn(r, fsOk, now)
    \/ \E r \in AudioResponses : MediaAudioReturn(r)
    \/ Respond
FairSpec ==
    Init /\ [][FairNext]_vars /\ WF_vars(ProgramStep) /\ []<>(~AwaitingLlm)

\* C21: a request whose LLM call is outstanding is eventually answered,
\* also when the call never returns or raises: the invocation completes
\* and the caller receives a response.
C21_AnsweredDespiteUnresolvedCall ==
    AwaitingLlm ~> (pc = "responded")


\* C22: over every sequence and interleaving of chat requests
\* buildAgentGraph is called at most once, and exactly once as soon as a
\* request has reached getGraph; every request in the graph uses that one
\* compiled object, and the module's compiledGraph, once set, is never
\* assigned again.
C22_GraphBuiltOnce ==
    /\ [](/\ conc.builds <= 1
          /\ IsNullish(conc.compiledGraph) <=> conc.builds = 0
          /\ \A i \in Invocations :
                 conc.inv[i].pc \in {"invoked", "imageAwait", "audioAwait", "done"} =>
                     /\ conc.builds = 1
                     /\ conc.inv[i].graph = CompiledGraph(1)
                     /\ conc.compiledGraph = CompiledGraph(1))
    /\ [][~IsNullish(conc.compiledGraph) =>
              (conc'.compiledGraph = conc.compiledGraph /\ conc'.builds = conc.builds)]_vars
C22_Witness ==
    /\ conc.inv[1].pc = "done" /\ conc.inv[2].pc = "invoked"
    /\ conc.builds = 1
    /\ conc.files # {}


\* The Express route: a request answered 400 has built no state and issued
\* no LLM request, and a state that was built holds a trimmed, non-empty
\* query.
ExpressRefusesEmptyQuery ==
    /\ (pc = "responded" /\ http.status = 400) =>
           /\ http.error = "Query is required"
           /\ state = ChannelDefaults
           /\ llmRequests = <<>>
    /\ llmRequests # <<>> =>
           /\ IsStr(state.query)
           /\ state.query.v # ""
           /\ state.query = Trim(state.query)

\* C23: a request whose query is absent, not a string, or empty after
\* trimming is answered 400 "Query is required" with no LLM request issued;
\* for every other request the pipeline receives the trimmed query.  Stated
\* for the serverless handler.
C23_EmptyQueryRefused ==
    api.pc # "idle" =>
        IF ~QueryValid(api.req.query)
        THEN /\ api.pc = "responded"
             /\ api.http.status = 400
             /\ api.http.error = "Query is required"
             /\ api.requests = <<>>
        ELSE api.requests # <<>> => api.query = Trim(api.req.query)


\* The metadata invocation i passed to generateTopicSVG.
RenderedFrom(i) ==
    ParseImageMetadata(conc.inv[i].state, conc.inv[i].image.content)
HasRendered(i) ==
    conc.inv[i].pc \in {"audioAwait", "done"} /\ conc.inv[i].svg # Null

FirstBalancedSpan(segs) ==
    LET braces == {i \in 1..Len(segs) : HasOpen(segs[i]) \/ HasClose(segs[i])}
    IN IF braces = {} THEN 0
       ELSE LET first == CHOOSE i \in braces : \A j \in braces : i <= j
            IN IF segs[first].s \in {"obj", "badobj"} THEN first ELSE 0

\* C25: when the first balanced {...} span of the visual-metadata response
\* is valid JSON, the metadata used for rendering is its decoding, whatever
\* text surrounds it; so in the deployment that returns a data URI the
\* image is the rendering of that object.
C25_FirstBalancedSpanDecoded ==
    (llmResp["image"].kind = "text" /\ llmResp["image"].content.k = "str") =>
        LET segs == llmResp["image"].content.segs
            first == FirstBalancedSpan(segs)
        IN (first # 0 /\ segs[first].s = "obj") =>
              /\ ParseImageMetadata(state, llmResp["image"].content) = segs[first].value
              /\ (vercel /\ ~RenderThrows(segs[first].value)) =>
                     locals.imageUrl = DataUri(generateTopicSVG(segs[first].value))


\* C26: for every keyConcepts sequence the renderer draws at most 4 concept
\* cards, every card lies inside the 700-wide canvas (x >= 0 and
\* x + 145 <= 700), and card i (from 0) has palette entry i mod 4.
C26_CardsInsideCanvas ==
    fn.pc = "svg" =>
        LET cards == fn.layout.conceptCards
        IN /\ Len(cards) <= 4
           /\ \A i \in 1..Len(cards) :
                  /\ cards[i].x >= 0
                  /\ cards[i].x + 145 <= 700
                  /\ cards[i].color = ChipColors[((i - 1) % 4) + 1]

\* C27: the code block shows at most 10 lines, numbered 1..n, in a panel of
\* height 24 + 18 n, and the panel's bottom edge and every baseline stay
\* above the tip banner at y = 460.
C27_CodeBlockAboveTip ==
    (fn.pc = "svg" /\ fn.layout.codeBlock # NoSection) =>
        LET block == fn.layout.codeBlock
            n == Len(block.lines)
        IN /\ n <= 10
           /\ Len(block.numbers) = n
           /\ \A i \in 1..n : block.numbers[i].text = i
                                /\ block.numbers[i].y = block.lines[i].y
                                /\ block.lines[i].y <= 234 + block.panel.height
                                /\ block.lines[i].y < 460
           /\ block.panel.height = 24 + 18 * n
           /\ 234 + block.panel.height < 460
           /\ fn.layout.tipSection # NoSection => fn.layout.tipSection.banner.y = 460
C27_Witness ==
    /\ fn.pc = "svg"
    /\ fn.layout.codeBlock # NoSection
    /\ Len(fn.layout.codeBlock.lines) = 10
    /\ Len(CodeLines_NoSlice(escapeXml(Substring(fn.arg.codeSnippet, 300)))) > 10
    /\ fn.layout.tipSection # NoSection


StageOrder == <<"supervisor", "researcher", "mediaEngine">>
RequestOrder == <<"supervisor", "researcher", "image", "audio">>
IsPrefix(s, t) == Len(s) <= Len(t) /\ s = SubSeq(t, 1, Len(s))

\* Each stage at most once and in order, a stage only after the previous
\* one returned, and at most four LLM requests: one by Classifier, one by
\* Content, two by Media.
StagesOnceInOrder ==
    /\ IsPrefix(executed, StageOrder)
    /\ IsPrefix(llmRequests, RequestOrder)
    /\ Len(llmRequests) <= 4
    /\ Len(executed) >= 2 => supOut # NoOut /\ llmResp["supervisor"].kind # "none"
    /\ Len(executed) >= 3 => llmResp["researcher"].kind # "none" \/ state.rejected
    /\ pc = "supervisorAwait" => executed = <<"supervisor">>
    /\ pc = "researcherAwait" => executed = <<"supervisor", "researcher">>
    /\ pc \in {"imageAwait", "audioAwait"} => executed = StageOrder

\* C28: when every LLM call returns or raises, every graph invocation
\* reaches the terminal state, and along the way the stages run at most
\* once each, in order, one after the other has completed, with at most
\* four LLM requests.
C28_TerminatesWithinFourRequests ==
    /\ [][StagesOnceInOrder']_vars
    /\ (pc = "supervisorAwait") ~> (pc \in {"done", "responded"})
C28_Witness ==
    /\ pc = "done"
    /\ executed = StageOrder
    /\ llmRequests = RequestOrder


\* C29: in every terminal state in which the Media stage ran (rejected is
\* false and markdown is non-empty), mediaFailed = false implies that
\* imageUrl and audioText are both set.
C29_MediaCompleteHasBothOutputs ==
    (Terminal /\ executed = StageOrder
       /\ ~state.rejected /\ Truthy(state.markdown) /\ ~state.mediaFailed) =>
        /\ IsSet(state.imageUrl)
        /\ IsSet(state.audioText)


(***************************************************************************)
(* The browser client.  App holds messages, loading, activeTopic and       *)
(* duration; handleSend issues a request and awaits it.  The form is       *)
(* disabled while loading, the suggestion chips are shown while there are  *)
(* no messages and nothing is loading, and the sidebar's topics and the    *)
(* home links are always there.                                            *)
(***************************************************************************)
MaxRequests == 2

FormTexts == {Pad("q1"), Pad("")}
Suggestions == {"s1"}
Topics == {[id |-> "t1", name |-> "Arrays"]}
Results == {"answer", "rejected"}

\* handleSend up to its await: the user's message is appended, loading is
\* set, and sendMessage posts the request.
handleSend(c, query) ==
    [c EXCEPT !.messages = Append(@, [role |-> "user", content |-> query]),
              !.loading = TRUE,
              !.sent = @ + 1,
              !.inFlight = @ \cup {[id |-> c.sent + 1, query |-> query,
                                    duration |-> c.duration]}]

ClientInit ==
    /\ PipelineIdle
    /\ fn = Idle
    /\ api = Idle
    /\ conc = Idle
    /\ client = [pc |-> "mounted", messages |-> <<>>, loading |-> FALSE,
                 activeTopic |-> Null, duration |-> Num(3), sent |-> 0, inFlight |-> {}]

\* The chat form is submitted; its textarea and button are disabled while
\* loading, and a blank text sends nothing.
FormSubmit(text) ==
    /\ client.pc = "mounted"
    /\ ~client.loading
    /\ client.sent < MaxRequests
    /\ client' = IF Truthy(Trim(text)) THEN handleSend(client, Trim(text)) ELSE client
    /\ UNCHANGED <<pipelineVars, fn, api, conc>>

\* A suggestion chip of the welcome screen is clicked.
ChipClick(s) ==
    /\ client.pc = "mounted"
    /\ client.messages = <<>> /\ ~client.loading
    /\ client.sent < MaxRequests
    /\ client' = handleSend(client, Str(s))
    /\ UNCHANGED <<pipelineVars, fn, api, conc>>

\* handleTopicClick: a topic of the sidebar is clicked.
TopicClick(topic) ==
    /\ client.pc = "mounted"
    /\ client.sent < MaxRequests
    /\ client' = handleSend([client EXCEPT !.activeTopic = Str(topic.id)],
                            Str("Explain " \o topic.name))
    /\ UNCHANGED <<pipelineVars, fn, api, conc>>

\* handleGoHome: the logo or the title is clicked.
GoHome ==
    /\ client.pc = "mounted"
    /\ client' = [client EXCEPT !.messages = <<>>, !.activeTopic = Null,
                                !.loading = FALSE]
    /\ UNCHANGED <<pipelineVars, fn, api, conc>>

\* The response to request id arrives: handleSend resumes, appends the
\* assistant's message and, in its finally, clears loading.
ResponseArrives(id, result) ==
    /\ client.pc = "mounted"
    /\ \E r \in client.inFlight : r.id = id
    /\ client' = [client EXCEPT
                     !.messages = Append(@, [role |-> "assistant", content |-> Str(result)]),
                     !.loading = FALSE,
                     !.inFlight = {r \in @ : r.id # id}]
    /\ UNCHANGED <<pipelineVars, fn, api, conc>>

\* Request id fails (an error status, a network error or the timeout): the
\* catch appends a rejection, the finally clears loading.
ErrorArrives(id) ==
    /\ client.pc = "mounted"
    /\ \E r \in client.inFlight : r.id = id
    /\ client' = [client EXCEPT
                     !.messages = Append(@, [role |-> "assistant",
                                             content |-> Str("Connection error")]),
                     !.loading = FALSE,
                     !.inFlight = {r \in @ : r.id # id}]
    /\ UNCHANGED <<pipelineVars, fn, api, conc>>

ClientNext ==
    \/ \E text \in FormTexts : FormSubmit(text)
    \/ \E s \in Suggestions : ChipClick(s)
    \/ \E topic \in Topics : TopicClick(topic)
    \/ GoHome
    \/ \E id \in 1..MaxRequests, result \in Results : ResponseArrives(id, result)
    \/ \E id \in 1..MaxRequests : ErrorArrives(id)

ClientSpec == ClientInit /\ [][ClientNext]_vars

\* C30: in the browser client at most one chat request is in flight at any
\* time, and loading is true whenever a request is in flight.
C30_OneRequestInFlight ==
    client.pc = "mounted" =>
        /\ Cardinality(client.inFlight) <= 1
        /\ client.inFlight # {} => client.loading

====
